---- MODULE Spec2Model ----
(***************************************************************************)
(* chartjs/util.py: str_to_datetime_date, date_range and value_or_null.    *)
(*                                                                         *)
(* A call of date_range or value_or_null creates a Python generator; no    *)
(* line of the body runs before the consumer's first next().  The model    *)
(* holds one generator: the arguments it was called with, its local        *)
(* variables, the values it has yielded and the log of the calls it made   *)
(* on the queryset.  Every next() of the consumer is one action, which     *)
(* runs the body up to the next yield, return or raise.                    *)
(***************************************************************************)
EXTENDS Integers, Sequences, FiniteSets, TLC

VARIABLES
    fn,             \* the generator function called
    args,           \* the arguments of the call, as passed
    pc,             \* "created", "suspended", "finished", "raised", "closed"
    start_date,     \* local start_date (a str until line 22/64 replaces it)
    end_date,       \* local end_date (a str until line 24/66 replaces it)
    number_of_days, \* local number_of_days of date_range
    days,           \* position of the iterator of range(number_of_days)
    out,            \* the values the consumer has received, in order
    requests,       \* number of next() calls of the consumer
    log,            \* the calls made on the queryset, in order
    error           \* the exception that left the generator, or "none"

vars == <<fn, args, pc, start_date, end_date, number_of_days, days, out,
          requests, log, error>>

-----------------------------------------------------------------------------
(* Bounds of the model. *)

\* The dates of the model are WindowStart, ..., WindowStart + MaxSpan days.
MaxSpan == 2

\* A queryset holds at most MaxRecords records.
MaxRecords == 2

-----------------------------------------------------------------------------
(* datetime.date: the proleptic Gregorian calendar, as CPython computes it  *)
(* for end_date - start_date (line 25) and start_date + timedelta (line 29) *)

Date(y, m, d) == [year |-> y, month |-> m, day |-> d]

IsLeap(y) == y % 4 = 0 /\ (y % 100 /= 0 \/ y % 400 = 0)

DaysInMonth(y, m) ==
    IF m = 2 THEN (IF IsLeap(y) THEN 29 ELSE 28)
    ELSE IF m \in {4, 6, 9, 11} THEN 30 ELSE 31

DaysBeforeYear(y) ==
    LET p == y - 1 IN p * 365 + (p \div 4) - (p \div 100) + (p \div 400)

RECURSIVE DaysBeforeMonth(_, _)
DaysBeforeMonth(y, m) ==
    IF m = 1 THEN 0 ELSE DaysBeforeMonth(y, m - 1) + DaysInMonth(y, m - 1)

\* date.toordinal(): 1 for 0001-01-01.
ToOrdinal(dt) ==
    DaysBeforeYear(dt.year) + DaysBeforeMonth(dt.year, dt.month) + dt.day

\* date.fromordinal(n), by the 400/100/4/1-year cycles.
FromOrdinal(n) ==
    LET n0   == n - 1
        n400 == n0 \div 146097
        r400 == n0 % 146097
        n100 == r400 \div 36524
        r100 == r400 % 36524
        n4   == r100 \div 1461
        r4   == r100 % 1461
        n1   == r4 \div 365
        r1   == r4 % 365
        year == n400 * 400 + 1 + n100 * 100 + n4 * 4 + n1
    IN  IF n1 = 4 \/ n100 = 4
        THEN Date(year - 1, 12, 31)
        ELSE LET guess == (r1 + 50) \div 32
                 month == IF DaysBeforeMonth(year, guess) > r1
                          THEN guess - 1 ELSE guess
             IN  Date(year, month, r1 - DaysBeforeMonth(year, month) + 1)

\* (end_date - start_date).days
DaysBetween(e, s) == ToOrdinal(e) - ToOrdinal(s)

\* dt + datetime.timedelta(k)
AddDays(dt, k) == FromOrdinal(ToOrdinal(dt) + k)

-----------------------------------------------------------------------------
(* Strings are sequences of one-character strings. *)

Digits == <<"0", "1", "2", "3", "4", "5", "6", "7", "8", "9">>

IsDigit(c) == \E i \in 1..10 : Digits[i] = c

DigitVal(c) == (CHOOSE i \in 1..10 : Digits[i] = c) - 1

RECURSIVE IntOf(_)
IntOf(s) ==
    IF s = <<>> THEN 0
    ELSE IntOf(SubSeq(s, 1, Len(s) - 1)) * 10 + DigitVal(s[Len(s)])

\* Does s hold character number i, and is it in the set cs?
At(s, i, cs) == i <= Len(s) /\ s[i] \in cs

DigitsFrom(a, b) == {Digits[i + 1] : i \in a..b}

(* _strptime's regular expression of "%Y-%m-%d":                           *)
(*   (\d\d\d\d)-(1[0-2]|0[1-9]|[1-9])-(3[0-1]|[1-2]\d|0[1-9]|[1-9]| [1-9]) *)
(* The alternatives are tried in order; the first that matches is the only *)
(* one after which the rest of the pattern can match.                      *)

\* Length of the match of %m at position i of s, 0 when there is none.
MatchMonth(s, i) ==
    IF \/ At(s, i, {"1"}) /\ At(s, i + 1, DigitsFrom(0, 2))
       \/ At(s, i, {"0"}) /\ At(s, i + 1, DigitsFrom(1, 9))
    THEN 2
    ELSE IF At(s, i, DigitsFrom(1, 9)) THEN 1 ELSE 0

\* Length of the match of %d at position i of s, 0 when there is none.
MatchDay(s, i) ==
    IF \/ At(s, i, {"3"}) /\ At(s, i + 1, DigitsFrom(0, 1))
       \/ At(s, i, DigitsFrom(1, 2)) /\ At(s, i + 1, DigitsFrom(0, 9))
       \/ At(s, i, {"0"}) /\ At(s, i + 1, DigitsFrom(1, 9))
    THEN 2
    ELSE IF At(s, i, DigitsFrom(1, 9)) THEN 1
    ELSE IF At(s, i, {" "}) /\ At(s, i + 1, DigitsFrom(1, 9)) THEN 2
    ELSE 0

\* The digits of a match, without the blank that %d admits.
NoBlank(s) == SelectSeq(s, IsDigit)

ParseFailure == [ok |-> FALSE, date |-> Date(0, 0, 0)]

\* datetime.datetime.strptime(datestr, "%Y-%m-%d"): the date, or the
\* ValueError (ok = FALSE) of a string the format does not match, of data
\* left over after the match, of the year 0 and of a day the month does not
\* have.
Strptime(datestr) ==
    IF ~ (\A i \in 1..4 : At(datestr, i, DigitsFrom(0, 9))) \/ ~ At(datestr, 5, {"-"})
    THEN ParseFailure
    ELSE LET ml == MatchMonth(datestr, 6) IN
         IF ml = 0 \/ ~ At(datestr, 6 + ml, {"-"})
         THEN ParseFailure
         ELSE LET dl == MatchDay(datestr, 7 + ml) IN
              IF dl = 0 \/ Len(datestr) /= 6 + ml + dl
              THEN ParseFailure
              ELSE LET y == IntOf(SubSeq(datestr, 1, 4))
                       m == IntOf(SubSeq(datestr, 6, 5 + ml))
                       d == IntOf(NoBlank(SubSeq(datestr, 7 + ml, 6 + ml + dl)))
                   IN  IF y >= 1 /\ d <= DaysInMonth(y, m)
                       THEN [ok |-> TRUE, date |-> Date(y, m, d)]
                       ELSE ParseFailure

\* The format read as "%Y-%d-%m".
StrToDatetimeDateDayFirst(datestr) ==
    LET r == Strptime(datestr)
    IN  IF r.ok /\ r.date.day <= 12
        THEN [ok |-> TRUE, date |-> Date(r.date.year, r.date.day, r.date.month)]
        ELSE ParseFailure

\* Line 7: strptime(datestr, "%Y-%m-%d").date(); the time of day of the
\* datetime, 00:00:00, is dropped.
StrToDatetimeDate(datestr) == Strptime(datestr)

-----------------------------------------------------------------------------
(* Python values: every value carries its type, as type(x) reads it.        *)

Str(chars) == [type |-> "str", value |-> chars]

NativeDate(dt) == [type |-> "date", date |-> dt]

Number(v) == [type |-> "number", number |-> v]

\* NULL = "null" (line 62)
NULL == Str(<<"n", "u", "l", "l">>)

\* The ValueError caught, and a fixed date taken in place of the string.
NormalizeSwallow(x) ==
    IF x.type = "str"
    THEN LET r == StrToDatetimeDate(x.value)
         IN  [ok |-> TRUE,
              value |-> NativeDate(IF r.ok THEN r.date ELSE Date(2020, 2, 28))]
    ELSE [ok |-> TRUE, value |-> x]

\* Lines 21-22, 23-24, 63-64, 65-66:
\*     if type(x) == str: x = str_to_datetime_date(x)
\* ok = FALSE when str_to_datetime_date raises.
Normalize(x) ==
    IF x.type = "str"
    THEN LET r == StrToDatetimeDate(x.value)
         IN  [ok |-> r.ok, value |-> IF r.ok THEN NativeDate(r.date) ELSE x]
    ELSE [ok |-> TRUE, value |-> x]

\* The test of inclusive left out.
NumberOfDaysAlwaysInclusive(s, e, inclusive) == DaysBetween(e.date, s.date) + 1

\* Lines 25-27: number_of_days, from the normalized dates.
NumberOfDays(s, e, inclusive) ==
    DaysBetween(e.date, s.date) + (IF inclusive THEN 1 ELSE 0)

InclusiveDefaultFalse == FALSE

\* Line 10: inclusive=True, the value date_range takes at line 67.
InclusiveDefault == TRUE

\* A loop that counts up to number_of_days and tests for equality.
RangeHasNextNotEqual(n, i) == i /= n

\* Line 28: does range(number_of_days) hold another element at position i?
RangeHasNext(n, i) == i < n

\* range(1, number_of_days + 1) in place of range(number_of_days).
DateAtFromOne(s, i) == NativeDate(AddDays(s.date, i + 1))

\* Line 29: the date yielded for the element `i` of the range.
DateAt(s, i) == NativeDate(AddDays(s.date, i))

-----------------------------------------------------------------------------
(* The queryset: a sequence of records, each with a date field and a value  *)
(* field.                                                                   *)

Record(dt, v) == [date |-> dt, value |-> v]

\* The filter without date__day.
FilterYearMonth(queryset, y, m, d) ==
    SelectSeq(queryset, LAMBDA r : r.date.year = y /\ r.date.month = m)

\* Lines 68-73: queryset.filter(date__year=y, date__month=m, date__day=d),
\* the records whose date field has these three components.
Filter(queryset, y, m, d) ==
    SelectSeq(queryset,
              LAMBDA r : r.date.year = y /\ r.date.month = m /\ r.date.day = d)

\* The first record taken whenever there is one.
ValueForFirst(items) ==
    IF Len(items) >= 1 THEN Number(items[1].value) ELSE NULL

\* Lines 74-77, once the queryset has answered: the value yielded for items.
ValueFor(items) ==
    IF Len(items) = 1 THEN Number(items[1].value) ELSE NULL

\* A call on the queryset, as logged: the operation, the date it asks for,
\* whether it raised, the next() of the consumer during which it happens and
\* the number of values the consumer had received by then.
Call(op, dt, raised) ==
    [op |-> op, date |-> dt, raised |-> raised, request |-> requests + 1,
     emitted |-> Len(out)]

\* The queryset filtered once for count() and once more for first().
LookupsRefilter(items, dt, fault) ==
    <<Call("filter", dt, fault = "filter")>>
    \o (IF fault = "filter" THEN <<>> ELSE <<Call("count", dt, fault = "count")>>)
    \o (IF fault \in {"filter", "count"} \/ Len(items) /= 1
        THEN <<>>
        ELSE <<Call("filter", dt, FALSE), Call("first", dt, fault = "first")>>)

\* Lines 73-75: the calls made on the queryset for new_date when the call
\* `fault` raises ("none": no call raises).  first() is called only when
\* count() has answered 1.
Lookups(items, dt, fault) ==
    <<Call("filter", dt, fault = "filter")>>
    \o (IF fault = "filter" THEN <<>> ELSE <<Call("count", dt, fault = "count")>>)
    \o (IF fault \in {"filter", "count"} \/ Len(items) /= 1
        THEN <<>> ELSE <<Call("first", dt, fault = "first")>>)

\* The exception of the queryset caught, and the date taken as missing.
LookupOutcomeSuppress(items, fault) ==
    [raised |-> FALSE, value |-> IF fault = "none" THEN ValueFor(items) ELSE NULL]

\* Lines 73-77 hold no try: a call on the queryset that raises ends the
\* generator with that exception, and nothing is yielded for the date.
LookupOutcome(items, fault) ==
    IF fault = "none"
    THEN [raised |-> FALSE, value |-> ValueFor(items)]
    ELSE [raised |-> TRUE, value |-> NULL]

\* The calls that can raise for items.
Faults(items) ==
    {"none", "filter", "count"} \cup (IF Len(items) = 1 THEN {"first"} ELSE {})

-----------------------------------------------------------------------------
(* The inputs of the model. *)

WindowStart == Date(2020, 2, 28)

WindowDates == {AddDays(WindowStart, k) : k \in 0..MaxSpan}

RECURSIVE Pad(_, _)
\* n in decimal, zero-padded to w characters.
Pad(n, w) ==
    IF w = 0 THEN <<>> ELSE Pad(n \div 10, w - 1) \o <<Digits[(n % 10) + 1]>>

\* n in decimal, without padding (n < 100).
Unpadded(n) == IF n < 10 THEN Pad(n, 1) ELSE Pad(n, 2)

\* The canonical encoding "YYYY-MM-DD" of a date.
IsoFormat(dt) ==
    Pad(dt.year, 4) \o <<"-">> \o Pad(dt.month, 2) \o <<"-">> \o Pad(dt.day, 2)

CanonStrs == {IsoFormat(dt) : dt \in WindowDates}

\* Strings that are not "YYYY-MM-DD": month and day without the zero, and a
\* blank in place of the zero of the day.
LooseStrs ==
    {Pad(dt.year, 4) \o <<"-">> \o Unpadded(dt.month) \o <<"-">> \o Unpadded(dt.day)
        : dt \in WindowDates}
    \cup {Pad(dt.year, 4) \o <<"-">> \o Pad(dt.month, 2) \o <<"-", " ">> \o Pad(dt.day, 1)
        : dt \in {w \in WindowDates : w.day < 10}}

\* Month 13, February 30, data after the date, another separator.
BadStrs ==
    { <<"2", "0", "2", "0", "-", "1", "3", "-", "0", "1">>,
      <<"2", "0", "2", "0", "-", "0", "2", "-", "3", "0">>,
      IsoFormat(WindowStart) \o <<"x">>,
      <<"2", "0", "2", "0", "/", "0", "2", "/", "2", "8">> }

DateSpecs ==
    {NativeDate(dt) : dt \in WindowDates}
    \cup {Str(s) : s \in CanonStrs \cup LooseStrs \cup BadStrs}

\* The arguments of value_or_null: fewer of the loose and bad strings.
MapperSpecs ==
    {NativeDate(dt) : dt \in WindowDates}
    \cup {Str(s) : s \in CanonStrs}
    \cup {Str(<<"2", "0", "2", "0", "-", "2", "-", "2", "9">>),
          Str(<<"2", "0", "2", "0", "-", "1", "3", "-", "0", "1">>),
          Str(<<"2", "0", "2", "0", "-", "0", "2", "-", "3", "0">>)}

\* Dates of the records: two dates of the window, and two dates that share
\* two of the three components with one of them.
RecordDates ==
    {Date(2020, 2, 29), Date(2020, 3, 1), Date(2020, 3, 29), Date(2019, 3, 1)}

RecordValues == {0, 7}

Records == {Record(dt, v) : dt \in RecordDates, v \in RecordValues}

RECURSIVE SeqsUpTo(_, _)
SeqsUpTo(S, n) ==
    IF n = 0 THEN {<<>>}
    ELSE LET shorter == SeqsUpTo(S, n - 1)
         IN  shorter \cup {Append(q, r) : q \in {p \in shorter : Len(p) = n - 1}, r \in S}

Querysets == SeqsUpTo(Records, MaxRecords)

-----------------------------------------------------------------------------
(* The generator. *)

Init ==
    /\ fn \in {"date_range", "value_or_null"}
    /\ \/ /\ fn = "date_range"
          /\ args \in [start_date : DateSpecs, end_date : DateSpecs,
                       inclusive : BOOLEAN]
       \/ /\ fn = "value_or_null"
          /\ args \in [start_date : MapperSpecs, end_date : MapperSpecs,
                       queryset : Querysets]
    /\ pc = "created"
    /\ start_date = args.start_date
    /\ end_date = args.end_date
    /\ number_of_days = 0
    /\ days = 0
    /\ out = <<>>
    /\ requests = 0
    /\ log = <<>>
    /\ error = "none"

\* An exception leaves the generator.
Raise(e) ==
    /\ pc' = "raised"
    /\ error' = e

\* Lines 28-29 of date_range: the next element of the range is yielded, or
\* the range is exhausted and the generator returns.
DateRangeLoop(s, n, i) ==
    IF RangeHasNext(n, i)
    THEN /\ out' = Append(out, DateAt(s, i))
         /\ days' = i + 1
         /\ pc' = "suspended"
    ELSE /\ pc' = "finished"
         /\ UNCHANGED <<out, days>>

\* The first next() of a date_range generator: lines 21-29 up to the first
\* yield.
DateRangeFirstNext ==
    /\ fn = "date_range"
    /\ pc = "created"
    /\ requests' = requests + 1
    /\ LET s == Normalize(start_date)
           e == Normalize(end_date)
       IN  IF ~ s.ok
           THEN /\ Raise("ValueError")
                /\ UNCHANGED <<start_date, end_date, number_of_days, days, out>>
           ELSE IF ~ e.ok
           THEN /\ start_date' = s.value
                /\ Raise("ValueError")
                /\ UNCHANGED <<end_date, number_of_days, days, out>>
           ELSE LET n == NumberOfDays(s.value, e.value, args.inclusive)
                IN  /\ start_date' = s.value
                    /\ end_date' = e.value
                    /\ number_of_days' = n
                    /\ DateRangeLoop(s.value, n, 0)
                    /\ error' = error
    /\ UNCHANGED <<fn, args, log>>

\* A later next() of a date_range generator: lines 28-29.
DateRangeNext ==
    /\ fn = "date_range"
    /\ pc = "suspended"
    /\ requests' = requests + 1
    /\ DateRangeLoop(start_date, number_of_days, days)
    /\ UNCHANGED <<fn, args, start_date, end_date, number_of_days, log, error>>

\* Lines 67-77 of value_or_null: the inner date_range generator is asked for
\* the element i of its range; when it has one, the queryset is asked for
\* that date and a value is yielded, unless a call on the queryset raises.
ValueOrNullLoop(s, n, i) ==
    IF RangeHasNext(n, i)
    THEN LET new_date == DateAt(s, i).date
             items == Filter(args.queryset, new_date.year, new_date.month,
                             new_date.day)
         IN  \E fault \in Faults(items) :
                LET outcome == LookupOutcome(items, fault)
                IN  /\ log' = log \o Lookups(items, new_date, fault)
                    /\ days' = i + 1
                    /\ IF outcome.raised
                       THEN /\ Raise("LookupError")
                            /\ out' = out
                       ELSE /\ out' = Append(out, outcome.value)
                            /\ pc' = "suspended"
                            /\ error' = error
    ELSE /\ pc' = "finished"
         /\ UNCHANGED <<out, days, log, error>>

\* The first next() of a value_or_null generator: lines 62-77 up to the
\* first yield.  date_range(start_date, end_date) is called with dates, so
\* its lines 21-24 change nothing, and with inclusive at its default.
ValueOrNullFirstNext ==
    /\ fn = "value_or_null"
    /\ pc = "created"
    /\ requests' = requests + 1
    /\ LET s == Normalize(start_date)
           e == Normalize(end_date)
       IN  IF ~ s.ok
           THEN /\ Raise("ValueError")
                /\ UNCHANGED <<start_date, end_date, number_of_days, days,
                               out, log>>
           ELSE IF ~ e.ok
           THEN /\ start_date' = s.value
                /\ Raise("ValueError")
                /\ UNCHANGED <<end_date, number_of_days, days, out, log>>
           ELSE LET n == NumberOfDays(Normalize(s.value).value,
                                      Normalize(e.value).value,
                                      InclusiveDefault)
                IN  /\ start_date' = s.value
                    /\ end_date' = e.value
                    /\ number_of_days' = n
                    /\ ValueOrNullLoop(s.value, n, 0)
    /\ UNCHANGED <<fn, args>>

\* A later next() of a value_or_null generator: lines 67-77.
ValueOrNullNext ==
    /\ fn = "value_or_null"
    /\ pc = "suspended"
    /\ requests' = requests + 1
    /\ ValueOrNullLoop(start_date, number_of_days, days)
    /\ UNCHANGED <<fn, args, start_date, end_date, number_of_days>>

\* The consumer stops consuming: the generator is never resumed again.
Close ==
    /\ pc \in {"created", "suspended"}
    /\ pc' = "closed"
    /\ UNCHANGED <<fn, args, start_date, end_date, number_of_days, days, out,
                   requests, log, error>>

Next ==
    \/ DateRangeFirstNext
    \/ DateRangeNext
    \/ ValueOrNullFirstNext
    \/ ValueOrNullNext
    \/ Close

Spec == Init /\ [][Next]_vars

-----------------------------------------------------------------------------
(* The calendar the claims are read against: dates ordered by year, month   *)
(* and day, and the day after a date.                                       *)

DateLE(a, b) ==
    \/ a.year < b.year
    \/ a.year = b.year /\ a.month < b.month
    \/ a.year = b.year /\ a.month = b.month /\ a.day <= b.day

Tomorrow(dt) ==
    IF dt.day < DaysInMonth(dt.year, dt.month) THEN Date(dt.year, dt.month, dt.day + 1)
    ELSE IF dt.month < 12 THEN Date(dt.year, dt.month + 1, 1)
    ELSE Date(dt.year + 1, 1, 1)

RECURSIVE DaysFromTo(_, _)
\* The number of days from a to b, for a <= b.
DaysFromTo(a, b) == IF a = b THEN 0 ELSE 1 + DaysFromTo(Tomorrow(a), b)

RECURSIVE NthDate(_, _)
\* The date k days after a.
NthDate(a, k) == IF k = 0 THEN a ELSE Tomorrow(NthDate(a, k - 1))

\* x is a date of the window, native or as its string "YYYY-MM-DD".
IsDateSpec(x) == x.type = "date" \/ x.value \in CanonStrs

\* The date that x is.
DateOf(x) ==
    IF x.type = "date" THEN x.date
    ELSE CHOOSE dt \in WindowDates : IsoFormat(dt) = x.value

\* The call is date_range(start, end, ...) for two dates.
RangeCall ==
    fn = "date_range" /\ IsDateSpec(args.start_date) /\ IsDateSpec(args.end_date)

\* The call is value_or_null(start, end, ...) for two dates.
MapperCall ==
    fn = "value_or_null" /\ IsDateSpec(args.start_date) /\ IsDateSpec(args.end_date)

\* The dates of the call.
StartOf == DateOf(args.start_date)

EndOf == DateOf(args.end_date)

\* The number of dates of the range from s to e.
RangeLength(s, e, inclusive) ==
    IF DateLE(s, e) THEN DaysFromTo(s, e) + (IF inclusive THEN 1 ELSE 0) ELSE 0

-----------------------------------------------------------------------------
(* C1: for valid dates start <= end, a date_range generator consumed to its *)
(* end has yielded (end - start).days + 1 dates when inclusive and          *)
(* (end - start).days dates when not, and it raises nothing; for            *)
(* start = end that is the one date start when inclusive and no date when   *)
(* not.                                                                     *)
C1_Count ==
    LET s == StartOf
        e == EndOf
    IN  RangeCall /\ DateLE(StartOf, EndOf) =>
            /\ error = "none"
            /\ Len(out) <= DaysFromTo(s, e) + (IF args.inclusive THEN 1 ELSE 0)
            /\ pc = "finished" =>
                /\ Len(out) = DaysFromTo(s, e) + (IF args.inclusive THEN 1 ELSE 0)
                /\ s = e /\ args.inclusive => out = <<NativeDate(s)>>
                /\ s = e /\ ~ args.inclusive => out = <<>>

C1_Witness ==
    /\ fn = "date_range"
    /\ pc = "finished"
    /\ args.start_date.type = "str"
    /\ ~ args.inclusive
    /\ Len(out) = 2

(* C2: for valid dates start > end, date_range yields no date and raises    *)
(* nothing, inclusive or not: the first next() ends the generator.          *)
C2_EmptyWhenReversed ==
    LET s == StartOf
        e == EndOf
    IN  RangeCall /\ ~ DateLE(StartOf, EndOf) =>
            /\ out = <<>>
            /\ error = "none"
            /\ pc \in {"created", "finished", "closed"}
            /\ requests > 0 => pc = "finished"

C2_Witness ==
    /\ fn = "date_range"
    /\ pc = "finished"
    /\ requests = 1
    /\ args.inclusive
    /\ RangeCall
    /\ Tomorrow(Tomorrow(EndOf)) = StartOf

(* C3: the dates date_range has yielded start with start, and each later    *)
(* one is the day after the one before it; when the generator has ended     *)
(* and yielded something, the last date is end when inclusive and the day   *)
(* before end when not.                                                     *)
C3_Consecutive ==
    LET s == StartOf
        e == EndOf
    IN  RangeCall /\ out /= <<>> =>
            /\ out[1] = NativeDate(s)
            /\ \A i \in 1..(Len(out) - 1) :
                  out[i + 1] = NativeDate(Tomorrow(out[i].date))
            /\ pc = "finished" =>
                  IF args.inclusive
                  THEN out[Len(out)] = NativeDate(e)
                  ELSE Tomorrow(out[Len(out)].date) = e

C3_Witness ==
    /\ fn = "date_range"
    /\ pc = "finished"
    /\ Len(out) = 3
    /\ out[1].date.month /= out[3].date.month

-----------------------------------------------------------------------------
(* What the claims about value_or_null are read against. *)

\* The records of the queryset whose date is dt.
Matching(queryset, dt) == SelectSeq(queryset, LAMBDA r : r.date = dt)

\* The string "null".
NullString == Str(<<"n", "u", "l", "l">>)

\* The calls of filter() in the log.
FilterCalls == SelectSeq(log, LAMBDA c : c.op = "filter")

(* C4: at every position k of the output of value_or_null, with d the k-th  *)
(* date of the inclusive range: when exactly one record of the queryset has *)
(* the date d the value is that record's value, and when none has, it is    *)
(* the string "null", which is no number.                                   *)
C4_ValueOrNull ==
    LET s == StartOf
        e == EndOf
    IN  MapperCall =>
            \A k \in 1..Len(out) :
                LET m == Matching(args.queryset, NthDate(s, k - 1))
                IN  /\ Len(m) = 1 => out[k] = Number(m[1].value)
                    /\ Len(m) = 0 => out[k] = NullString /\ out[k].type /= "number"

C4_Witness ==
    /\ fn = "value_or_null"
    /\ pc = "finished"
    /\ Len(args.queryset) = 1
    /\ out = <<NullString, Number(0), NullString>>

(* C5: a value_or_null generator consumed to its end has yielded one value  *)
(* per date of date_range(start, end, inclusive=True), in date order: the   *)
(* k-th value follows the lookup of the k-th date, and the number of values *)
(* is the length of the inclusive range (zero when start > end), whatever   *)
(* the queryset holds.                                                      *)
C5_OnePerDate ==
    LET s == StartOf
        e == EndOf
    IN  MapperCall =>
            /\ Len(out) <= RangeLength(s, e, TRUE)
            /\ pc = "finished" =>
                /\ error = "none"
                /\ Len(out) = RangeLength(s, e, TRUE)
                /\ Len(FilterCalls) = Len(out)
                /\ \A k \in 1..Len(out) :
                      /\ FilterCalls[k].date = NthDate(s, k - 1)
                      /\ FilterCalls[k].emitted = k - 1

C5_Witness ==
    /\ fn = "value_or_null"
    /\ pc = "finished"
    /\ Len(out) = 3
    /\ Len(args.queryset) = 2
    /\ args.queryset[1].date = args.queryset[2].date
    /\ args.queryset[1].date \in WindowDates

\* The dates date_range yields for native dates s and e: lines 25-29.
RECURSIVE NativeOutput(_, _, _)
NativeOutput(s, n, i) ==
    IF i < n THEN <<DateAt(s, i)>> \o NativeOutput(s, n, i + 1) ELSE <<>>

(* C6: date_range called with "YYYY-MM-DD" strings, for start, for end or   *)
(* for both, raises nothing and yields the dates that date_range yields     *)
(* for the native dates the strings stand for, inclusive or not.            *)
C6_StringsAsNative ==
    LET s == StartOf
        e == EndOf
    IN  RangeCall =>
            LET native == NativeOutput(NativeDate(s),
                                       NumberOfDays(NativeDate(s), NativeDate(e),
                                                    args.inclusive), 0)
            IN  /\ error = "none"
                /\ Len(out) <= Len(native)
                /\ out = SubSeq(native, 1, Len(out))
                /\ pc = "finished" => out = native
                /\ requests > 0 => start_date = NativeDate(s) /\ end_date = NativeDate(e)

C6_Witness ==
    /\ fn = "date_range"
    /\ pc = "finished"
    /\ args.start_date.type = "str"
    /\ args.end_date.type = "date"
    /\ Len(out) = 2

-----------------------------------------------------------------------------
(* Which strings are dates. *)

\* s is ten characters, DDDD-DD-DD.
IsYYYYMMDD(s) ==
    /\ Len(s) = 10
    /\ \A i \in {1, 2, 3, 4, 6, 7, 9, 10} : IsDigit(s[i])
    /\ s[5] = "-" /\ s[8] = "-"

\* s is "YYYY-MM-DD" and a day of the calendar.
IsCalendarDate(s) ==
    /\ IsYYYYMMDD(s)
    /\ LET y == IntOf(SubSeq(s, 1, 4))
           m == IntOf(SubSeq(s, 6, 7))
           d == IntOf(SubSeq(s, 9, 10))
       IN  y >= 1 /\ m \in 1..12 /\ d \in 1..DaysInMonth(y, m)

\* The strings strptime takes for the month m and for the day d: the leading
\* zero is optional, and a blank may stand for the zero of the day.
MonthForms(m) == {Pad(m, 2), Unpadded(m)}

DayForms(d) ==
    {Pad(d, 2), Unpadded(d)} \cup (IF d < 10 THEN {<<" ">> \o Pad(d, 1)} ELSE {})

\* s is a day of the calendar in one of the forms strptime takes.
IsStrptimeDate(s) ==
    /\ Len(s) >= 4
    /\ \A i \in 1..4 : IsDigit(s[i])
    /\ LET y == IntOf(SubSeq(s, 1, 4))
       IN  /\ y >= 1
           /\ \E m \in 1..12 :
                 \E d \in 1..DaysInMonth(y, m) :
                    \E mf \in MonthForms(m), df \in DayForms(d) :
                       s = Pad(y, 4) \o <<"-">> \o mf \o <<"-">> \o df

InputStrs == {x.value : x \in {a \in DateSpecs \cup MapperSpecs : a.type = "str"}}

CalendarDateStrs == {s \in InputStrs : IsCalendarDate(s)}

StrptimeDateStrs == {s \in InputStrs : IsStrptimeDate(s)}

\* The generator has been resumed and has ended with the ValueError, before
\* any value and before any call on the queryset.
ParseErrorSurfaced ==
    /\ pc = "raised"
    /\ error = "ValueError"
    /\ out = <<>>
    /\ log = <<>>

\* One of the two arguments is a string outside the set strs.
SomeStringNotIn(strs) ==
    \/ args.start_date.type = "str" /\ args.start_date.value \notin strs
    \/ args.end_date.type = "str" /\ args.end_date.value \notin strs

C8_LookupErrorPropagates ==
    LET s == StartOf
        e == EndOf
    IN  MapperCall =>
            /\ \A i \in 1..Len(log) :
                  log[i].raised =>
                     /\ i = Len(log)
                     /\ pc = "raised"
                     /\ error = "LookupError"
                     /\ log[i].date = NthDate(s, Len(out))
                     /\ Len(out) = log[i].emitted
                     /\ Len(FilterCalls) = Len(out) + 1
                     /\ \A j \in 1..Len(log) :
                           log[j].date = log[i].date /\ log[j].op = log[i].op => j = i
                     /\ \A k \in 1..Len(out) :
                           LET m == Matching(args.queryset, NthDate(s, k - 1))
                           IN  out[k] = IF Len(m) = 1 THEN Number(m[1].value)
                                        ELSE NullString
            /\ error = "LookupError" => log /= <<>> /\ log[Len(log)].raised

C8_Witness ==
    /\ fn = "value_or_null"
    /\ error = "LookupError"
    /\ Len(out) = 2
    /\ out[2].type = "number"
    /\ log[Len(log)].op = "first"
    /\ log[Len(log)].raised

(* C9: value_or_null asks the queryset for the k-th date of the range       *)
(* during the k-th next() of the consumer and after k - 1 values have been  *)
(* yielded, with one filter() per date and in date order; when the consumer *)
(* stops after n values, no date after the n-th has been asked for.         *)
C9_PullBased ==
    LET s == StartOf
        e == EndOf
    IN  MapperCall =>
            /\ Len(FilterCalls) <= requests
            /\ \A k \in 1..Len(FilterCalls) :
                  /\ FilterCalls[k].date = NthDate(s, k - 1)
                  /\ FilterCalls[k].request = k
                  /\ FilterCalls[k].emitted = k - 1
            /\ \A i \in 1..Len(log) :
                  /\ log[i].emitted = log[i].request - 1
                  /\ log[i].date = NthDate(s, log[i].request - 1)
                  /\ i > 1 => log[i - 1].request <= log[i].request
            /\ pc \in {"suspended", "closed"} =>
                  Len(FilterCalls) = Len(out) /\ Len(out) = requests

C9_Witness ==
    /\ fn = "value_or_null"
    /\ pc = "closed"
    /\ Len(out) = 1
    /\ Len(FilterCalls) = 1
    /\ MapperCall
    /\ RangeLength(StartOf, EndOf, TRUE) = 3

(* C10: when two or more records of the queryset have the date d, the value *)
(* yielded for d is the string "null", no record's value, and the generator *)
(* goes on: it is suspended, or it has ended after the last date, or what   *)
(* followed belongs to the next date.                                       *)
C10_AmbiguousIsNull ==
    LET s == StartOf
        e == EndOf
    IN  MapperCall =>
            \A k \in 1..Len(out) :
                Len(Matching(args.queryset, NthDate(s, k - 1))) >= 2 =>
                    /\ out[k] = NullString
                    /\ k = Len(out) =>
                          \/ pc \in {"suspended", "closed"}
                          \/ pc = "finished" /\ k = RangeLength(s, e, TRUE)
                          \/ /\ pc = "raised"
                             /\ log[Len(log)].date = NthDate(s, k)

C10_Witness ==
    /\ fn = "value_or_null"
    /\ pc = "finished"
    /\ out = <<NullString, NullString>>
    /\ Len(args.queryset) = 2
    /\ args.queryset[1].date = start_date.date
    /\ args.queryset[2].date = args.queryset[1].date
    /\ args.queryset[1].value /= args.queryset[2].value

====
